---------------------------- MODULE Spec2Model ----------------------------
(***************************************************************************)
(* Model of mosley.cpp: the Camera class (a pair of uEye cameras snapped   *)
(* in alternation) and the ZeroMQ reply loop of main().                    *)
(*                                                                         *)
(* The uEye driver, the filesystem and the ZeroMQ peer are the             *)
(* environment: every return code the code reads is drawn from a small set *)
(* and every return code the code ignores is drawn and then dropped.       *)
(***************************************************************************)
EXTENDS Integers, Sequences, FiniteSets, TLC

(***************************************************************************)
(* Bounds of the model.                                                    *)
(***************************************************************************)
\* Requests the clients send in one run.
MaxRequests == 4
\* The retry counter of one snap() call saturates here (the loop itself is
\* unbounded).
MaxRetries == 2
\* is_GetNumberOfCameras reports 0..MaxCams cameras.
MaxCams == 3
\* Requests that can wait unread at the socket.
MaxPending == 2
\* An earlier run of the program left the artifacts of its first 0..MaxStale
\* captures in images/.
MaxStale == 2

(***************************************************************************)
(* Program constants.                                                      *)
(***************************************************************************)
LEFT_DEV_ID == 1
RIGHT_DEV_ID == 2
\* cameras.size() of std::array<Physical_camera, 2>.
NumCameras == 2
\* The minimum of num_cams that initialize() accepts.
RequiredCams == 2
\* exit(1) of the catch handler.
EXIT_FAILURE_STATUS == 1

NULLPTR == 0

\* Driver return codes (ueye.h), by name.
IS_SUCCESS == "IS_SUCCESS"
IS_NO_SUCCESS == "IS_NO_SUCCESS"
IS_INVALID_PARAMETER == "IS_INVALID_PARAMETER"
IS_FILE_READ_INVALID_BMP_ID == "IS_FILE_READ_INVALID_BMP_ID"
IS_FILE_READ_OPEN_ERROR == "IS_FILE_READ_OPEN_ERROR"
IS_NOT_SUPPORTED == "IS_NOT_SUPPORTED"
\* Two codes snap() has no case for.
IS_TIMED_OUT == "IS_TIMED_OUT"
IS_OUT_OF_MEMORY == "IS_OUT_OF_MEMORY"

\* What a driver call whose result the code compares with IS_SUCCESS returns.
DriverResults == {IS_SUCCESS, IS_NO_SUCCESS, IS_TIMED_OUT}

\* What is_ImageFile returns.
EncodeResults ==
    {IS_SUCCESS, IS_INVALID_PARAMETER, IS_FILE_READ_INVALID_BMP_ID,
     IS_FILE_READ_OPEN_ERROR, IS_NO_SUCCESS, IS_NOT_SUPPORTED,
     IS_TIMED_OUT, IS_OUT_OF_MEMORY}

CameraIndex == 0 .. (NumCameras - 1)

VARIABLES
    pc,           \* position of the single thread
    cameras,      \* Camera::cameras: index -> [id, mem, mem_id]
    num_cams,     \* initialize(): num_cams
    idx,          \* index of the range-for over cameras (initialize, ~Camera)
    exception,    \* the Camera_exception in flight or caught ("" = none)
    exit_status,  \* -1 until exit() is called, then its status
    cerr_main,    \* lines the handler of main() wrote to std::cerr
    drv_log,      \* driver calls of initialize() and ~Camera(): [op, id, res]
    dropped,      \* the first setup call whose non-success result was not read
    exit_res,     \* what is_ExitCamera returned to ~Camera(), call by call
    current,      \* snap(): static size_t current
    count,        \* snap(): static size_t count[2]
    calls,        \* snap() calls started since process start
    camera,       \* snap(): index of the Physical_camera bound to `camera`
    result,       \* snap(): result of the last is_FreezeVideo
    retries,      \* non-success is_FreezeVideo results of this call (saturating)
    r,            \* snap(): result of is_ImageFile
    ws,           \* snap(): the wide file name
    filename,     \* snap(): the narrow file name
    last_op,      \* the last driver call of snap(): [op, id, mem, mem_id]
    encodes,      \* is_ImageFile calls of this snap() call
    frozen,       \* id of the device whose is_FreezeVideo succeeded in this call
    cerr_snap,    \* lines snap() wrote to std::cerr in this call
    clog_snap,    \* lines snap() wrote to std::clog in this call
    image,        \* main(): the vector snap() returned
    disk,         \* the filesystem: path -> [exists, bytes, writer]
    artifacts,    \* artifact names generated in this run: [id, seq, slot, name]
    endpoint,     \* the ZeroMQ REP socket: "none", "unbound" or "bound"
    arrived,      \* requests the clients have sent
    nrecv,        \* requests zmq_recv has delivered
    replies       \* replies zmq_send has sent: [id, name, payload, call]

vars ==
    <<pc, cameras, num_cams, idx, exception, exit_status, cerr_main, drv_log, dropped,
      current, count, calls, camera, result, retries, r, ws, filename,
      last_op, cerr_snap, clog_snap, image, disk, artifacts, endpoint,
      arrived, nrecv, replies, exit_res, encodes, frozen>>

initVars == <<cameras, num_cams, idx, exception, exit_status, cerr_main, drv_log,
      dropped, exit_res>>
snapVars ==
    <<current, count, calls, camera, result, retries, r, ws, filename,
      last_op, cerr_snap, clog_snap, artifacts, encodes, frozen>>
netVars == <<endpoint, nrecv, replies>>

(***************************************************************************)
(* Pure functions of the code.                                             *)
(***************************************************************************)
\* NumCamsOk with the bound off by one: one camera is accepted.
NumCamsOkOffByOne(n) == ~(n < RequiredCams - 1)

\* initialize(): the test that lets the per-device setup start.
NumCamsOk(n) == ~(n < RequiredCams)

\* Succeeded with the test left out: every result lets the setup go on.
SucceededAlways(res) == TRUE

\* A driver result the code tests with `result != IS_SUCCESS`.
Succeeded(res) == res = IS_SUCCESS

\* NextCurrent without the increment: the cursor is not advanced.
NextCurrentStuck(c) == c

\* snap(): current = (current+1) % cameras.size().
NextCurrent(c) == (c + 1) % NumCameras

\* LoopAgain testing one code: only IS_NO_SUCCESS is retried.
LoopAgainOneCode(res) == res = IS_NO_SUCCESS

\* snap(): the condition of `do ... while (result != IS_SUCCESS)`.
LoopAgain(res) == res # IS_SUCCESS

\* PostIncrement without the ++: the counter is read and not incremented.
PostIncrementLost(cnt, s) == cnt

\* snap(): count[] after `count[current]++` on slot s.
PostIncrement(cnt, s) == [cnt EXCEPT ![s] = cnt[s] + 1]

\* operator<< of an unsigned integer: its decimal digits as code units.
RECURSIVE Decimal(_)
Decimal(n) == IF n < 10 THEN <<48 + n>> ELSE Decimal(n \div 10) \o <<48 + (n % 10)>>

\* "images/camera-" and ".jpg" and "-" as code units.
NamePrefix == <<105, 109, 97, 103, 101, 115, 47, 99, 97, 109, 101, 114, 97, 45>>
NameSuffix == <<46, 106, 112, 103>>
NameDash == <<45>>

\* snap(): wss << "images/camera-" << camera.id << "-" << count << ".jpg".
WideName(id, seq) == NamePrefix \o Decimal(id) \o NameDash \o Decimal(seq) \o NameSuffix

\* snap(): std::string filename{ws.begin(), ws.end()}: each wchar_t is
\* converted to char.
Narrow(w) == [j \in 1 .. Len(w) |-> w[j] % 256]

\* The driver's path for params.pwchFileName: the multibyte (UTF-8) form of
\* the wide name.
RECURSIVE DriverPath(_)
DriverPath(w) ==
    IF w = <<>> THEN <<>>
    ELSE (IF Head(w) < 128 THEN <<Head(w)>>
          ELSE <<192 + ((Head(w) \div 64) % 32), 128 + (Head(w) % 64)>>)
         \o DriverPath(Tail(w))

\* EncodeLog whose default case does not print the code.
EncodeLogNoCode(res) ==
    CASE res = IS_SUCCESS -> <<>>
      [] res = IS_INVALID_PARAMETER -> <<"IS_INVALID_PARAMETER">>
      [] res = IS_FILE_READ_INVALID_BMP_ID -> <<"IS_FILE_READ_INVALID_BMP">>
      [] res = IS_FILE_READ_OPEN_ERROR -> <<"IS_FILE_READ_OPEN_ERROR">>
      [] res = IS_NO_SUCCESS -> <<"IS_NO_SUCCESS">>
      [] res = IS_NOT_SUPPORTED -> <<"IS_NOT_SUPPORTED">>
      [] OTHER -> <<"unknown:">>

\* snap(): the std::cerr line of the switch on the is_ImageFile result
\* (<<>> = no line).
EncodeLog(res) ==
    CASE res = IS_SUCCESS -> <<>>
      [] res = IS_INVALID_PARAMETER -> <<"IS_INVALID_PARAMETER">>
      [] res = IS_FILE_READ_INVALID_BMP_ID -> <<"IS_FILE_READ_INVALID_BMP">>
      [] res = IS_FILE_READ_OPEN_ERROR -> <<"IS_FILE_READ_OPEN_ERROR">>
      [] res = IS_NO_SUCCESS -> <<"IS_NO_SUCCESS">>
      [] res = IS_NOT_SUPPORTED -> <<"IS_NOT_SUPPORTED">>
      [] OTHER -> <<"unknown:", res>>

\* snap(): the std::clog line "camera: <id> time: <elapsed>ms" (the elapsed
\* time is not modelled).
TimingLog(id) == <<"camera:", id, "time:">>

\* The JPEG the driver writes for the k-th snap() call of this run: two
\* marker bytes and k bytes of payload, so frames of different calls differ
\* in content and in length.
Frame(k) == <<255, 216>> \o [j \in 1 .. k |-> k]

\* A JPEG left in images/ by an earlier run.
StaleFrame == <<255, 216>>

\* A file of the filesystem; writer is the snap() call that wrote it, 0 for
\* an earlier run.
NoFile == [exists |-> FALSE, bytes |-> <<>>, writer |-> 0]
File(b, w) == [exists |-> TRUE, bytes |-> b, writer |-> w]

\* snap(): std::ifstream image(filename) read to the end: the bytes of the
\* file, nothing when it cannot be opened.
ReadFile(d, path) ==
    IF path \in DOMAIN d /\ d[path].exists THEN d[path].bytes ELSE <<>>

\* The filesystem after the driver has written b to path.
WriteFile(d, path, b, w) ==
    [q \in DOMAIN d \cup {path} |-> IF q = path THEN File(b, w) ELSE d[q]]

\* The device an earlier run used on its k-th capture, and its sequence
\* number there.
RunDevice(k) == IF k % 2 = 1 THEN LEFT_DEV_ID ELSE RIGHT_DEV_ID
RunSeq(k) == (k - 1) \div 2

\* The paths this run or an earlier one can name.
AllPaths ==
    {DriverPath(WideName(RunDevice(k), RunSeq(k))) : k \in 1 .. (MaxRequests + MaxStale + 2)}

(***************************************************************************)
(* The state after `Camera camera;` in main().                             *)
(***************************************************************************)
NotRead == "not read"
NoDrop == [op |-> "none", id |-> 0]
NoOp == [op |-> "none", id |-> 0, mem |-> NULLPTR, mem_id |-> 0]

Init ==
    /\ pc = "initialize"
    /\ cameras = [i \in CameraIndex |->
                    [id |-> IF i = 0 THEN LEFT_DEV_ID ELSE RIGHT_DEV_ID,
                     mem |-> NULLPTR, mem_id |-> 0]]
    /\ num_cams = 0
    /\ idx = 0
    /\ exception = ""
    /\ exit_status = -1
    /\ cerr_main = <<>>
    /\ drv_log = <<>>
    /\ dropped = NoDrop
    /\ exit_res = <<>>
    /\ current = 0
    /\ count = [i \in CameraIndex |-> 0]
    /\ calls = 0
    /\ camera = 0
    /\ result = "unset"
    /\ retries = 0
    /\ r = "unset"
    /\ ws = <<>>
    /\ filename = <<>>
    /\ last_op = NoOp
    /\ encodes = 0
    /\ frozen = 0
    /\ cerr_snap = <<>>
    /\ clog_snap = <<>>
    /\ image = <<>>
    /\ \E m \in 0 .. MaxStale :
         disk = [q \in AllPaths |->
                   IF \E k \in 1 .. m : q = DriverPath(WideName(RunDevice(k), RunSeq(k)))
                   THEN File(StaleFrame, 0) ELSE NoFile]
    /\ artifacts = <<>>
    /\ endpoint = "none"
    /\ arrived = 0
    /\ nrecv = 0
    /\ replies = <<>>
(***************************************************************************)
(* Camera::initialize() and the per-device initialize(camera).             *)
(***************************************************************************)
Min(a, b) == IF a < b THEN a ELSE b

\* An entry of drv_log; res is the result the code read, NotRead when the
\* code does not read it.
DriverCall(op, id, res) == [op |-> op, id |-> id, res |-> res]

\* dropped after a call whose result the code does not read returned res.
Drop(op, id, res) ==
    IF dropped = NoDrop /\ res # IS_SUCCESS THEN [op |-> op, id |-> id] ELSE dropped

\* Throw without the unwinding: the error is recorded and main() goes on.
ThrowSwallowed(msg) ==
    /\ exception' = msg
    /\ idx' = idx
    /\ pc' = "zmq_bind"

\* Throw that leaves by exit() at the throw site: no destructor runs.
ThrowNoUnwind(msg) ==
    /\ exception' = msg
    /\ idx' = 0
    /\ pc' = "catch"

\* throw Camera_exception{msg}: the stack unwinds out of the try block of
\* main(), which destroys `camera` before the handler runs.
Throw(msg) ==
    /\ exception' = msg
    /\ idx' = 0
    /\ pc' = "unwind"

\* initialize(): is_GetNumberOfCameras and the test of num_cams.  A failed
\* call leaves num_cams at 0; its result is not read.
GetNumberOfCameras ==
    /\ pc = "initialize"
    /\ \E n \in 0 .. MaxCams :
         /\ num_cams' = n
         /\ drv_log' = Append(drv_log, DriverCall("is_GetNumberOfCameras", 0, NotRead))
         /\ IF NumCamsOk(n)
            THEN /\ pc' = "is_InitCamera"
                 /\ idx' = 0
                 /\ UNCHANGED exception
            ELSE Throw("two cameras not available")
    /\ UNCHANGED <<exit_res, cameras, dropped, exit_status, cerr_main, snapVars, image, disk,
                   netVars, arrived>>

\* initialize(camera): is_InitCamera(&handle, nullptr).
InitCamera ==
    /\ pc = "is_InitCamera"
    /\ \E res \in DriverResults :
         /\ drv_log' = Append(drv_log,
                DriverCall("is_InitCamera", cameras[idx].id, res))
         /\ IF Succeeded(res)
            THEN pc' = "is_EnableAutoExit" /\ UNCHANGED <<idx, exception>>
            ELSE Throw("could not initialize camera")
    /\ UNCHANGED <<exit_res, cameras, dropped, num_cams, exit_status, cerr_main, snapVars, image,
                   disk, netVars, arrived>>

\* initialize(camera): is_EnableAutoExit(camera.id, IS_ENABLE_AUTO_EXIT).
EnableAutoExit ==
    /\ pc = "is_EnableAutoExit"
    /\ \E res \in DriverResults :
         /\ drv_log' = Append(drv_log,
                DriverCall("is_EnableAutoExit", cameras[idx].id, res))
         /\ IF Succeeded(res)
            THEN pc' = "is_AllocImageMem" /\ UNCHANGED <<idx, exception>>
            ELSE Throw("could not enable auto exit")
    /\ UNCHANGED <<exit_res, cameras, dropped, num_cams, exit_status, cerr_main, snapVars, image,
                   disk, netVars, arrived>>

\* initialize(camera): is_AllocImageMem(..., &camera.mem, &camera.mem_id);
\* the result is not read.  A failed call leaves mem and mem_id as they were.
AllocImageMem ==
    /\ pc = "is_AllocImageMem"
    /\ \E res \in {IS_SUCCESS, IS_NO_SUCCESS} :
         /\ drv_log' = Append(drv_log,
                DriverCall("is_AllocImageMem", cameras[idx].id, NotRead))
         /\ dropped' = Drop("is_AllocImageMem", cameras[idx].id, res)
         /\ cameras' = IF res = IS_SUCCESS
                       THEN [cameras EXCEPT ![idx].mem = cameras[idx].id,
                                            ![idx].mem_id = 1]
                       ELSE cameras
    /\ pc' = "init_SetImageMem"
    /\ UNCHANGED <<exit_res, num_cams, idx, exception, exit_status, cerr_main, snapVars, image, disk,
                   netVars, arrived>>

\* initialize(camera): is_SetImageMem(camera.id, camera.mem, camera.mem_id);
\* the result is not read.
InitSetImageMem ==
    /\ pc = "init_SetImageMem"
    /\ \E res \in {IS_SUCCESS, IS_NO_SUCCESS} :
         /\ drv_log' = Append(drv_log,
                DriverCall("is_SetImageMem", cameras[idx].id, NotRead))
         /\ dropped' = Drop("is_SetImageMem", cameras[idx].id, res)
    /\ pc' = "is_ImageFormat"
    /\ UNCHANGED <<exit_res, cameras, num_cams, idx, exception, exit_status, cerr_main, snapVars, image,
                   disk, netVars, arrived>>

\* initialize(camera): is_ImageFormat(camera.id, IMGFRMT_CMD_SET_FORMAT, ...);
\* the result is not read.  The is_AOI call is compiled out (#if 0).  Then
\* the range-for of initialize() moves to the next camera or ends, and
\* initialize() returns to main().
ImageFormat ==
    /\ pc = "is_ImageFormat"
    /\ \E res \in {IS_SUCCESS, IS_NO_SUCCESS} :
         /\ drv_log' = Append(drv_log,
                DriverCall("is_ImageFormat", cameras[idx].id, NotRead))
         /\ dropped' = Drop("is_ImageFormat", cameras[idx].id, res)
    /\ IF idx + 1 < NumCameras
       THEN idx' = idx + 1 /\ pc' = "is_InitCamera"
       ELSE idx' = idx /\ pc' = "zmq_bind"
    /\ UNCHANGED <<exit_res, cameras, num_cams, exception, exit_status, cerr_main, snapVars, image, disk,
                   netVars, arrived>>

(***************************************************************************)
(* ~Camera() during unwinding, and the handler of main().                  *)
(***************************************************************************)
\* Destroy that tests the result: a non-success result raises in the
\* destructor, which ends the process during unwinding.
DestroyStopsOnError ==
    /\ pc = "unwind"
    /\ \E res \in DriverResults :
         /\ drv_log' = Append(drv_log,
                DriverCall("is_ExitCamera", cameras[idx].id, res))
         /\ exit_res' = Append(exit_res, res)
         /\ IF res # IS_SUCCESS
            THEN idx' = idx /\ pc' = "aborted"
            ELSE IF idx + 1 < NumCameras
                 THEN idx' = idx + 1 /\ pc' = "unwind"
                 ELSE idx' = idx /\ pc' = "catch"
    /\ UNCHANGED <<cameras, dropped, num_cams, exception, exit_status, cerr_main,
                   snapVars, image, disk, netVars, arrived>>

\* ~Camera(): destroy(camera) for the next camera: is_ExitCamera(camera.id),
\* result not read.
Destroy ==
    /\ pc = "unwind"
    /\ \E res \in DriverResults :
         /\ drv_log' = Append(drv_log,
                DriverCall("is_ExitCamera", cameras[idx].id, NotRead))
         /\ exit_res' = Append(exit_res, res)
    /\ IF idx + 1 < NumCameras
       THEN idx' = idx + 1 /\ pc' = "unwind"
       ELSE idx' = idx /\ pc' = "catch"
    /\ UNCHANGED <<cameras, dropped, num_cams, exception, exit_status, cerr_main,
                   snapVars, image, disk, netVars, arrived>>

\* catch (Camera_exception& e): std::cerr << e.what(); exit(1).
Catch ==
    /\ pc = "catch"
    /\ cerr_main' = Append(cerr_main, exception)
    /\ exit_status' = EXIT_FAILURE_STATUS
    /\ pc' = "exited"
    /\ UNCHANGED <<exit_res, cameras, dropped, num_cams, idx, exception, drv_log, snapVars, image, disk,
                   netVars, arrived>>
(***************************************************************************)
(* main(): the reply endpoint and the serving loop.                        *)
(***************************************************************************)
\* zmq_ctx_new, zmq_socket(context, ZMQ_REP), zmq_bind(socket, "tcp://*:5555");
\* rc is not read.
ZmqBind ==
    /\ pc = "zmq_bind"
    /\ \E rc \in {0, -1} : endpoint' = IF rc = 0 THEN "bound" ELSE "unbound"
    /\ pc' = "zmq_recv"
    /\ UNCHANGED <<initVars, snapVars, image, disk, nrecv, replies, arrived>>

\* A client sends a request (its REQ socket queues it until the server
\* reads it).
ClientRequest ==
    /\ arrived < MaxRequests
    /\ arrived - nrecv < MaxPending
    /\ arrived' = arrived + 1
    /\ UNCHANGED <<pc, initVars, snapVars, image, disk, netVars>>

\* zmq_recv(socket, unused, 10, 0): blocks until a request is there; then
\* main() calls camera.snap().
ZmqRecv ==
    /\ pc = "zmq_recv"
    /\ endpoint = "bound"
    /\ arrived > nrecv
    /\ nrecv' = nrecv + 1
    /\ pc' = "snap"
    /\ UNCHANGED <<initVars, snapVars, image, disk, endpoint, replies, arrived>>

\* ZmqSend with the loop closing after zmq_recv: the next capture starts
\* without a request.
ZmqSendNoRecv ==
    /\ pc = "zmq_send"
    /\ calls < MaxRequests
    /\ replies' = Append(replies,
           [id |-> cameras[camera].id, name |-> filename, payload |-> image,
            call |-> calls])
    /\ pc' = "snap"
    /\ UNCHANGED <<initVars, snapVars, image, disk, endpoint, nrecv, arrived>>

\* zmq_send(socket, &image[0], image.size(), 0), then back to zmq_recv.
\* image[0] on an empty vector is undefined: the build either forms the
\* address without reading it, and an empty reply is sent, or checks the
\* index (a library built with assertions) and aborts the process.
ZmqSend ==
    /\ pc = "zmq_send"
    /\ \/ /\ replies' = Append(replies,
                 [id |-> cameras[camera].id, name |-> filename, payload |-> image,
                  call |-> calls])
          /\ pc' = "zmq_recv"
       \/ /\ image = <<>>
          /\ replies' = replies
          /\ pc' = "aborted"
    /\ UNCHANGED <<initVars, snapVars, image, disk, endpoint, nrecv, arrived>>

(***************************************************************************)
(* Camera::snap().                                                         *)
(***************************************************************************)
SnapOp(op, c) == [op |-> op, id |-> c.id, mem |-> c.mem, mem_id |-> c.mem_id]

\* SnapSelect with the two statements swapped: the camera is taken after the
\* cursor has advanced.
SnapSelectAfterAdvance ==
    /\ pc = "snap"
    /\ camera' = NextCurrent(current)
    /\ current' = NextCurrent(current)
    /\ calls' = calls + 1
    /\ result' = "unset"
    /\ r' = "unset"
    /\ retries' = 0
    /\ ws' = <<>>
    /\ filename' = <<>>
    /\ last_op' = NoOp
    /\ encodes' = 0
    /\ frozen' = 0
    /\ cerr_snap' = <<>>
    /\ clog_snap' = <<>>
    /\ pc' = "is_SetImageMem"
    /\ UNCHANGED <<initVars, count, artifacts, image, disk, netVars, arrived>>

\* snap() entry: camera = cameras[current]; current = (current+1) % size.
SnapSelect ==
    /\ pc = "snap"
    /\ camera' = current
    /\ current' = NextCurrent(current)
    /\ calls' = calls + 1
    /\ result' = "unset"
    /\ r' = "unset"
    /\ retries' = 0
    /\ ws' = <<>>
    /\ filename' = <<>>
    /\ last_op' = NoOp
    /\ encodes' = 0
    /\ frozen' = 0
    /\ cerr_snap' = <<>>
    /\ clog_snap' = <<>>
    /\ pc' = "is_SetImageMem"
    /\ UNCHANGED <<initVars, count, artifacts, image, disk, netVars, arrived>>

\* do { is_SetImageMem(camera.id, camera.mem, camera.mem_id); (result not read)
SnapSetImageMem ==
    /\ pc = "is_SetImageMem"
    /\ last_op' = SnapOp("is_SetImageMem", cameras[camera])
    /\ pc' = "is_FreezeVideo"
    /\ UNCHANGED <<initVars, current, count, calls, camera, result, retries, r, ws,
                   filename, cerr_snap, clog_snap, artifacts, encodes, frozen, image,
                   disk, netVars, arrived>>

\* SnapFreezeVideo with is_SetImageMem hoisted out of the loop: a retry
\* freezes again without a bind.
SnapFreezeVideoNoRebind ==
    /\ pc = "is_FreezeVideo"
    /\ \E res \in DriverResults :
         /\ result' = res
         /\ IF LoopAgain(res)
            THEN /\ pc' = "is_FreezeVideo"
                 /\ retries' = Min(retries + 1, MaxRetries)
                 /\ frozen' = frozen
            ELSE /\ pc' = "name"
                 /\ retries' = retries
                 /\ frozen' = cameras[camera].id
    /\ last_op' = SnapOp("is_FreezeVideo", cameras[camera])
    /\ UNCHANGED <<initVars, current, count, calls, camera, r, ws, filename,
                   cerr_snap, clog_snap, artifacts, encodes, image, disk, netVars,
                   arrived>>

\* result = is_FreezeVideo(camera.id, IS_WAIT); } while (result != IS_SUCCESS);
SnapFreezeVideo ==
    /\ pc = "is_FreezeVideo"
    /\ \E res \in DriverResults :
         /\ result' = res
         /\ IF LoopAgain(res)
            THEN /\ pc' = "is_SetImageMem"
                 /\ retries' = Min(retries + 1, MaxRetries)
                 /\ frozen' = frozen
            ELSE /\ pc' = "name"
                 /\ retries' = retries
                 /\ frozen' = cameras[camera].id
    /\ last_op' = SnapOp("is_FreezeVideo", cameras[camera])
    /\ UNCHANGED <<initVars, current, count, calls, camera, r, ws, filename,
                   cerr_snap, clog_snap, artifacts, encodes, image, disk, netVars,
                   arrived>>

\* SnapName with ++count[current]: the incremented value is printed.
SnapNamePreIncrement ==
    /\ pc = "name"
    /\ ws' = WideName(cameras[camera].id, count[current] + 1)
    /\ filename' = Narrow(ws')
    /\ count' = PostIncrement(count, current)
    /\ artifacts' = Append(artifacts,
           [id |-> cameras[camera].id, seq |-> count[current] + 1, slot |-> current,
            name |-> ws'])
    /\ pc' = "is_ImageFile"
    /\ UNCHANGED <<initVars, current, calls, camera, result, retries, r, last_op,
                   cerr_snap, clog_snap, encodes, frozen, image, disk, netVars,
                   arrived>>

\* wss << "images/camera-" << camera.id << "-" << count[current]++ << ".jpg";
\* ws = wss.str(); filename{ws.begin(), ws.end()}.
SnapName ==
    /\ pc = "name"
    /\ ws' = WideName(cameras[camera].id, count[current])
    /\ filename' = Narrow(ws')
    /\ count' = PostIncrement(count, current)
    /\ artifacts' = Append(artifacts,
           [id |-> cameras[camera].id, seq |-> count[current], slot |-> current,
            name |-> ws'])
    /\ pc' = "is_ImageFile"
    /\ UNCHANGED <<initVars, current, calls, camera, result, retries, r, last_op,
                   cerr_snap, clog_snap, encodes, frozen, image, disk, netVars,
                   arrived>>

\* r = is_ImageFile(camera.id, IS_IMAGE_FILE_CMD_SAVE, &params, ...) and the
\* switch (r).  The driver writes the file when it reports IS_SUCCESS and
\* leaves the filesystem alone otherwise.
SnapImageFile ==
    /\ pc = "is_ImageFile"
    /\ \E res \in EncodeResults :
         /\ r' = res
         /\ disk' = IF res = IS_SUCCESS
                    THEN WriteFile(disk, DriverPath(ws), Frame(calls), calls)
                    ELSE disk
         /\ cerr_snap' = IF EncodeLog(res) = <<>> THEN cerr_snap
                         ELSE Append(cerr_snap, EncodeLog(res))
    /\ last_op' = SnapOp("is_ImageFile", cameras[camera])
    /\ encodes' = encodes + 1
    /\ pc' = "log"
    /\ UNCHANGED <<initVars, current, count, calls, camera, result, retries, ws,
                   filename, clog_snap, artifacts, frozen, image, netVars, arrived>>

\* SnapLog printing the id of cameras[current], the camera the advanced
\* cursor points to.
SnapLogCursorDevice ==
    /\ pc = "log"
    /\ clog_snap' = Append(clog_snap, TimingLog(cameras[current].id))
    /\ pc' = "read"
    /\ UNCHANGED <<initVars, current, count, calls, camera, result, retries, r, ws,
                   filename, last_op, cerr_snap, artifacts, encodes, frozen, image,
                   disk, netVars, arrived>>

\* std::clog << "camera: " << camera.id << " time: " << elapsed << "ms\n".
SnapLog ==
    /\ pc = "log"
    /\ clog_snap' = Append(clog_snap, TimingLog(cameras[camera].id))
    /\ pc' = "read"
    /\ UNCHANGED <<initVars, current, count, calls, camera, result, retries, r, ws,
                   filename, last_op, cerr_snap, artifacts, encodes, frozen, image,
                   disk, netVars, arrived>>

\* std::ifstream image(filename, binary); return its bytes to main().
SnapRead ==
    /\ pc = "read"
    /\ image' = ReadFile(disk, filename)
    /\ pc' = "zmq_send"
    /\ UNCHANGED <<initVars, snapVars, disk, netVars, arrived>>

Next ==
    \/ GetNumberOfCameras
    \/ InitCamera
    \/ EnableAutoExit
    \/ AllocImageMem
    \/ InitSetImageMem
    \/ ImageFormat
    \/ Destroy
    \/ Catch
    \/ ZmqBind
    \/ ClientRequest
    \/ ZmqRecv
    \/ SnapSelect
    \/ SnapSetImageMem
    \/ SnapFreezeVideo
    \/ SnapName
    \/ SnapImageFile
    \/ SnapLog
    \/ SnapRead
    \/ ZmqSend

Spec == Init /\ [][Next]_vars
(***************************************************************************)
(* Properties.                                                             *)
(***************************************************************************)
\* The positions inside one snap() call, and those after initialize() has
\* returned to main().
SnapPcs == {"is_SetImageMem", "is_FreezeVideo", "name", "is_ImageFile", "log", "read"}
ServingPcs == {"zmq_bind", "zmq_recv", "snap", "zmq_send", "aborted"} \cup SnapPcs
FailedPcs == {"unwind", "catch", "exited"}

\* C1: rotation invariant.  After N snap() calls have been started the cursor
\* is N mod 2; the camera selected by call k is the one at index (k-1) mod 2,
\* device id 1 on odd calls and device id 2 on even calls; every driver call
\* of that snap() call is issued on that device, whatever the number of
\* freeze retries and whatever the encode outcome.
C1_Rotation ==
    /\ current = calls % 2
    /\ calls > 0 =>
         /\ camera = (calls - 1) % 2
         /\ cameras[camera].id = (IF calls % 2 = 1 THEN 1 ELSE 2)
         /\ last_op.op # "none" => last_op.id = (IF calls % 2 = 1 THEN 1 ELSE 2)

\* Witness of C1: the third call has retried its freeze, logged an encode
\* failure and returned, after an earlier call on the other device.
C1_Witness ==
    /\ pc = "zmq_send"
    /\ calls = 3
    /\ retries > 0
    /\ r \notin {"unset", IS_SUCCESS}
    /\ current = 1

\* C2: per-device sequence numbers.  Over the artifact names of one run: no
\* two captures produce the same name; for one device the sequence number
\* strictly increases from one capture to the next; the two devices use
\* different counter slots, so a capture of one device never changes the
\* number the other device gets next.
C2_SequenceNumbers ==
    \A i, j \in 1 .. Len(artifacts) :
        i < j =>
          /\ artifacts[i].name # artifacts[j].name
          /\ Narrow(artifacts[i].name) # Narrow(artifacts[j].name)
          /\ artifacts[i].id = artifacts[j].id => artifacts[i].seq < artifacts[j].seq
          /\ (artifacts[i].id = artifacts[j].id) <=> (artifacts[i].slot = artifacts[j].slot)

\* Witness of C2: each device has named two artifacts.
C2_Witness ==
    /\ Len(artifacts) >= 4
    /\ \E i, j \in 1 .. Len(artifacts) :
         i < j /\ artifacts[i].id = 1 /\ artifacts[j].id = 1
    /\ \E i, j \in 1 .. Len(artifacts) :
         i < j /\ artifacts[i].id = 2 /\ artifacts[j].id = 2

\* C3: initialize() throws when the driver reports fewer than two cameras,
\* and then no is_InitCamera has been issued; when it reports two or more,
\* the per-device setup is started.
C3_TwoCamerasRequired ==
    pc # "initialize" =>
       IF num_cams < 2
       THEN /\ exception = "two cameras not available"
            /\ pc \in FailedPcs
            /\ \A i \in 1 .. Len(drv_log) : drv_log[i].op # "is_InitCamera"
       ELSE /\ exception # "two cameras not available"
            /\ \/ pc = "is_InitCamera" /\ idx = 0
               \/ \E i \in 1 .. Len(drv_log) :
                     drv_log[i].op = "is_InitCamera" /\ drv_log[i].id = 1

\* Witness of C3: the driver reported one camera and the process has exited.
C3_Witness ==
    /\ pc = "exited"
    /\ num_cams = 1
    /\ exception = "two cameras not available"
\* C4: initialize() returns to main() only if every setup step (open,
\* auto-release enrollment, frame-buffer allocation, buffer bind, pixel
\* format) reported success for both devices.
C4_SetupFailureAborts ==
    pc \in ServingPcs => dropped = NoDrop

\* C5: when is_ImageFile returns a non-success code, snap() goes on to its
\* return with no exception raised, exactly one std::cerr line was written
\* in this call, that line is the one of this code and of no other code, and
\* the cursor points at the other device.
C5_EncodeFailureNotFatal ==
    (pc \in {"log", "read", "zmq_send"} /\ r # IS_SUCCESS) =>
       /\ exception = ""
       /\ exit_status = -1
       /\ Len(cerr_snap) = 1
       /\ cerr_snap[1] # <<>>
       /\ \A c \in EncodeResults \ {IS_SUCCESS} :
             (cerr_snap[1] = EncodeLog(c)) <=> (c = r)
       /\ current # camera
       /\ current = calls % 2

\* Witness of C5: snap() has returned after is_ImageFile reported a code the
\* switch has no case for.
C5_Witness ==
    /\ pc = "zmq_send"
    /\ r = IS_TIMED_OUT
    /\ cerr_snap = << <<"unknown:", "IS_TIMED_OUT">> >>

\* C6: snap() leaves the freeze loop, and returns, only after is_FreezeVideo
\* reported IS_SUCCESS; a non-success result keeps the call inside the loop,
\* with no exception, however many came before it.
C6_FreezeUntilSuccess ==
    /\ pc \in {"name", "is_ImageFile", "log", "read", "zmq_send"} => result = IS_SUCCESS
    /\ (calls > 0 /\ pc \in {"zmq_recv", "snap"}) => result = IS_SUCCESS
    /\ (result \notin {"unset", IS_SUCCESS}) =>
          pc \in {"is_SetImageMem", "is_FreezeVideo"} /\ exception = ""
    /\ retries > 0 => pc \in ServingPcs /\ exception = "" /\ exit_status = -1

\* Witness of C6: snap() has returned after MaxRetries or more non-success
\* freeze results.
C6_Witness ==
    /\ pc = "zmq_send"
    /\ retries = MaxRetries
    /\ result = IS_SUCCESS

\* C7: the server's events are receive, capture, reply, in that order and
\* repeating: at the receive the three counts agree, between the receive and
\* the reply there is one request more than replies and at most one capture
\* more than replies, the k-th reply is of the k-th capture, and no request
\* is read that has not arrived.
C7_OneExchangeInFlight ==
    /\ nrecv <= arrived
    /\ Len(replies) <= calls
    /\ calls <= nrecv
    /\ nrecv <= Len(replies) + 1
    /\ pc \in {"initialize", "zmq_bind", "zmq_recv"} \cup FailedPcs =>
          nrecv = Len(replies) /\ calls = Len(replies)
    /\ pc = "snap" => nrecv = Len(replies) + 1 /\ calls = Len(replies)
    /\ pc \in SnapPcs \cup {"zmq_send"} =>
          nrecv = Len(replies) + 1 /\ calls = Len(replies) + 1
    /\ \A k \in 1 .. Len(replies) : replies[k].call = k

\* Witness of C7: a second request waits at the socket while the capture of
\* the third exchange is under way.
C7_Witness ==
    /\ pc = "is_FreezeVideo"
    /\ Len(replies) = 2
    /\ nrecv = 3
    /\ arrived > nrecv

\* C8: the k-th reply is of a capture on device id 1 when k is odd and on
\* device id 2 when k is even, its artifact name is the one generated for
\* that device, and no two consecutive replies are of the same device.
C8_RepliesAlternate ==
    /\ \A k \in 1 .. Len(replies) :
          /\ replies[k].id = (IF k % 2 = 1 THEN 1 ELSE 2)
          /\ artifacts[k].id = replies[k].id
          /\ replies[k].name = Narrow(artifacts[k].name)
    /\ \A k \in 1 .. Len(replies) - 1 : replies[k].id # replies[k + 1].id

\* Witness of C8: three requests have been answered, from device 1, then
\* device 2, then device 1.
C8_Witness ==
    /\ Len(replies) >= 3
    /\ replies[1].id = 1
    /\ replies[2].id = 2
    /\ replies[3].id = 1

\* C9: each reply's payload is the image written to disk for that same
\* capture, with its length, and not the content of an artifact of another
\* capture of this run.
C9_ReplyIsThisCapture ==
    \A k \in 1 .. Len(replies) :
       LET path == DriverPath(artifacts[k].name) IN
       /\ replies[k].name = path
       /\ disk[path].exists
       /\ disk[path].writer = k
       /\ replies[k].payload = disk[path].bytes
       /\ Len(replies[k].payload) = Len(Frame(k))
       /\ \A q \in DOMAIN disk :
             (disk[q].exists /\ disk[q].writer \notin {0, k}) =>
                replies[k].payload # disk[q].bytes

\* C10: an error raised during initialization is caught once in main(), its
\* message is written to std::cerr and the process exits with a non-zero
\* status; the reply endpoint is never created and no request is received or
\* answered.
C10_StartupErrorExits ==
    /\ exception # "" =>
          /\ pc \in FailedPcs
          /\ endpoint = "none"
          /\ nrecv = 0
          /\ calls = 0
          /\ replies = <<>>
    /\ pc = "exited" =>
          /\ exception # ""
          /\ cerr_main = <<exception>>
          /\ exit_status # -1
          /\ exit_status # 0
    /\ pc # "exited" => exit_status = -1 /\ cerr_main = <<>>

\* Witness of C10: the second device rejected the auto-release enrollment,
\* the process has exited, and a request a client sent was never read.
C10_Witness ==
    /\ pc = "exited"
    /\ exception = "could not enable auto exit"
    /\ idx = 1
    /\ arrived > 0
    /\ exit_status = 1
\* The ids of the is_ExitCamera calls in drv_log, in order.
RECURSIVE ExitIds(_)
ExitIds(log) ==
    IF log = <<>> THEN <<>>
    ELSE (IF Head(log).op = "is_ExitCamera" THEN <<Head(log).id>> ELSE <<>>)
         \o ExitIds(Tail(log))

\* C11: teardown after a failed startup.  When the handler of main() runs,
\* and so before the process exits, is_ExitCamera has been issued exactly
\* once for device 1 and then exactly once for device 2, whatever call of
\* initialize() threw, and every device that is_InitCamera had opened was
\* released after it was opened.
C11_TeardownAfterFailedStartup ==
    /\ pc \in {"catch", "exited"} =>
          /\ ExitIds(drv_log) = <<1, 2>>
          /\ \A i \in 1 .. Len(drv_log) :
                (drv_log[i].op = "is_InitCamera" /\ drv_log[i].res = IS_SUCCESS) =>
                   \E j \in (i + 1) .. Len(drv_log) :
                      drv_log[j].op = "is_ExitCamera" /\ drv_log[j].id = drv_log[i].id
    /\ exit_status # -1 => pc = "exited"
    /\ Len(ExitIds(drv_log)) > 0 => exception # ""

\* Witness of C11: both devices were opened, the second one rejected the
\* auto-release enrollment, and the process has exited.
C11_Witness ==
    /\ pc = "exited"
    /\ exception = "could not enable auto exit"
    /\ \E i, j \in 1 .. Len(drv_log) :
          /\ drv_log[i].op = "is_InitCamera" /\ drv_log[i].id = 1
          /\ drv_log[i].res = IS_SUCCESS
          /\ drv_log[j].op = "is_InitCamera" /\ drv_log[j].id = 2
          /\ drv_log[j].res = IS_SUCCESS

\* C12: teardown swallows errors.  Whatever is_ExitCamera returns for the
\* first device (opened or never opened, released or not), ~Camera() goes on
\* to request the release of the second device: nothing is raised, the
\* process is not ended by teardown, and the handler runs with both releases
\* requested and the exception of initialize() still the one in flight.
C12_TeardownSwallowsErrors ==
    /\ Len(exit_res) = 1 => pc = "unwind" /\ idx = 1
    /\ Len(exit_res) = 2 => pc \in {"catch", "exited"}
    /\ Len(exit_res) <= 2
    /\ pc \in {"catch", "exited"} => Len(exit_res) = 2 /\ ExitIds(drv_log) = <<1, 2>>
    /\ exit_res # <<>> =>
          exception \in {"two cameras not available", "could not initialize camera",
                         "could not enable auto exit"}

\* Witness of C12: no device was ever opened, the release of the first device
\* reported an error, the release of the second was requested all the same
\* and reported an error too, and the process exited through the handler.
C12_Witness ==
    /\ pc = "exited"
    /\ num_cams = 1
    /\ exit_res[1] # IS_SUCCESS
    /\ exit_res[2] # IS_SUCCESS
    /\ exit_status = 1
(***************************************************************************)
(* Scheduling.  main() runs on one thread that is never descheduled for    *)
(* good, so a step of the program that stays possible is taken; under      *)
(* DriverAssumption no retry sequence of is_FreezeVideo fails forever.     *)
(***************************************************************************)
ServerStep ==
    \/ GetNumberOfCameras \/ InitCamera \/ EnableAutoExit \/ AllocImageMem
    \/ InitSetImageMem \/ ImageFormat \/ Destroy \/ Catch \/ ZmqBind \/ ZmqRecv
    \/ SnapSelect \/ SnapSetImageMem \/ SnapFreezeVideo \/ SnapName
    \/ SnapImageFile \/ SnapLog \/ SnapRead \/ ZmqSend

FreezeSucceeds == SnapFreezeVideo /\ result' = IS_SUCCESS

DriverAssumption == SF_vars(FreezeSucceeds)

\* The program with its scheduling, and with the assumption on the driver.
FairSpec == Spec /\ WF_vars(ServerStep)
LiveSpec == Spec /\ WF_vars(ServerStep) /\ DriverAssumption

\* A step taken inside the freeze loop, other than a successful freeze.
LoopStepStays ==
    (pc \in {"is_SetImageMem", "is_FreezeVideo"} /\ ~FreezeSucceeds) =>
       /\ pc' \in {"is_SetImageMem", "is_FreezeVideo"}
       /\ replies' = replies
       /\ nrecv' = nrecv
       /\ exception' = exception

\* C13: liveness of the serving loop.  Under the assumption that every retry
\* sequence of is_FreezeVideo eventually reports success, every request the
\* server has received is eventually answered; and inside the retry loop
\* every step other than a successful freeze stays in the loop, sends no
\* reply and reads no request (no timeout or cancellation leaves the loop).
C13_RequestsAnswered ==
    /\ \A k \in 1 .. MaxRequests : (nrecv = k) ~> (Len(replies) >= k)
    /\ [][LoopStepStays]_vars

\* The first half of C13 alone, and the second half alone.
C13_EveryRequestAnswered ==
    \A k \in 1 .. MaxRequests : (nrecv = k) ~> (Len(replies) >= k)
C13_NoWayOutOfLoop == [][LoopStepStays]_vars
\* C14: the steps of one snap() call come in the order bind, freeze (until
\* success), encode-and-save, read back, timing log: a freeze is preceded by
\* a bind, the encode comes after the successful freeze, the read back after
\* the encode, and the timing line is written only once the artifact has
\* been read back.
C14_StepOrder ==
    /\ pc = "is_FreezeVideo" => last_op.op = "is_SetImageMem"
    /\ encodes > 0 => result = IS_SUCCESS
    /\ pc = "read" => encodes = 1
    /\ clog_snap # <<>> => pc \notin SnapPcs

\* A snap() call that has returned, up to the entry of the next one.
SnapReturned == calls > 0 /\ pc \in {"zmq_send", "aborted", "zmq_recv", "snap"}

\* C15: a snap() call that has returned has issued exactly one is_ImageFile
\* and written exactly one timing line; the timing line and the artifact
\* name carry the id of the device whose freeze succeeded in this call, which
\* is the device selected at entry and not the one the advanced cursor
\* points to; every driver call of the call was on that device.
C15_OneDevicePerCall ==
    /\ encodes <= 1
    /\ Len(clog_snap) <= 1
    /\ (calls > 0 /\ last_op.op # "none") => last_op.id = cameras[camera].id
    /\ frozen # 0 => frozen = cameras[camera].id
    /\ SnapReturned =>
          /\ encodes = 1
          /\ Len(clog_snap) = 1
          /\ frozen = (IF calls % 2 = 1 THEN 1 ELSE 2)
          /\ clog_snap[1] = <<"camera:", frozen, "time:">>
          /\ artifacts[calls].id = frozen
          /\ ws = artifacts[calls].name
          /\ SubSeq(ws, 1, Len(NamePrefix) + 2) = NamePrefix \o <<48 + frozen, 45>>
          /\ last_op.op = "is_ImageFile"
          /\ last_op.id = frozen
          /\ frozen # cameras[current].id

\* Witness of C15: the second call has returned after a freeze retry; it was
\* on device 2 while the cursor is back on device 1.
C15_Witness ==
    /\ pc = "zmq_send"
    /\ calls = 2
    /\ retries > 0
    /\ frozen = 2
    /\ cameras[current].id = 1

\* C16: the artifact of a device's n-th capture has sequence number n-1: the
\* number is the count of earlier captures of the same device in this run,
\* it is printed in decimal after the device id, and the counter slot it is
\* taken from is the cursor after its advance (the index of the other
\* device).
C16_NumberingFromZero ==
    \A i \in 1 .. Len(artifacts) :
       /\ artifacts[i].seq =
             Cardinality({j \in 1 .. (i - 1) : artifacts[j].id = artifacts[i].id})
       /\ artifacts[i].seq = (i - 1) \div 2
       /\ artifacts[i].slot = i % 2
       /\ cameras[artifacts[i].slot].id # artifacts[i].id
       /\ artifacts[i].name =
             NamePrefix \o <<48 + artifacts[i].id, 45>> \o Decimal((i - 1) \div 2)
                \o NameSuffix

\* Witness of C16: four captures; the first of each device is numbered 0 and
\* the second of each device is numbered 1.
C16_Witness ==
    /\ Len(artifacts) = 4
    /\ artifacts[1].seq = 0 /\ artifacts[2].seq = 0
    /\ artifacts[3].seq = 1 /\ artifacts[4].seq = 1
\* C17: when is_ImageFile reports a non-success code, snap() returns what is
\* at the artifact's name: nothing when no file is there, the bytes left by
\* an earlier run when one is; and the request is answered all the same,
\* with exactly that payload.
C17_FailedEncodeStillAnswered ==
    /\ (SnapReturned /\ r # IS_SUCCESS) =>
          LET f == disk[DriverPath(ws)] IN
          /\ ~f.exists => image = <<>>
          /\ f.exists => f.writer = 0 /\ image = f.bytes
    /\ pc # "aborted"
    /\ (calls > 0 /\ pc \in {"zmq_recv", "snap"}) =>
          Len(replies) = calls /\ replies[calls].payload = image

\* The setup calls of drv_log, as <<op, id>>, in order.
RECURSIVE SetupCalls(_)
SetupCalls(log) ==
    IF log = <<>> THEN <<>>
    ELSE (IF Head(log).op \in {"is_GetNumberOfCameras", "is_ExitCamera"} THEN <<>>
          ELSE << <<Head(log).op, Head(log).id>> >>)
         \o SetupCalls(Tail(log))

\* C18: setup order.  The setup calls issued so far are always a prefix of:
\* open, auto-release enrollment, allocate, bind, pixel format for device 1,
\* then the same five for device 2; and once the open or the auto-release
\* enrollment of device 1 was rejected, no setup call is issued for device 2.
C18_SetupOrder ==
    LET expected ==
          << <<"is_InitCamera", 1>>, <<"is_EnableAutoExit", 1>>,
             <<"is_AllocImageMem", 1>>, <<"is_SetImageMem", 1>>,
             <<"is_ImageFormat", 1>>,
             <<"is_InitCamera", 2>>, <<"is_EnableAutoExit", 2>>,
             <<"is_AllocImageMem", 2>>, <<"is_SetImageMem", 2>>,
             <<"is_ImageFormat", 2>> >>
        done == SetupCalls(drv_log)
    IN
    /\ Len(done) <= Len(expected)
    /\ done = SubSeq(expected, 1, Len(done))
    /\ (\E i \in 1 .. Len(drv_log) :
           /\ drv_log[i].id = 1
           /\ drv_log[i].op \in {"is_InitCamera", "is_EnableAutoExit"}
           /\ drv_log[i].res # IS_SUCCESS)
       => \A j \in 1 .. Len(done) : done[j][2] # 2
    /\ pc \in ServingPcs => Len(done) = Len(expected)

\* Witness of C18: all ten setup calls have been issued and initialize() has
\* returned.
C18_Witness ==
    /\ pc = "zmq_bind"
    /\ Len(SetupCalls(drv_log)) = 10

\* C19: every is_FreezeVideo of snap(), the retries included, comes right
\* after an is_SetImageMem on the same device with that device's own mem and
\* mem_id; after a freeze the next driver call is a bind again, unless the
\* freeze succeeded and the loop is left.
C19_RebindBeforeEveryFreeze ==
    /\ pc = "is_FreezeVideo" =>
          /\ last_op.op = "is_SetImageMem"
          /\ last_op.id = (IF calls % 2 = 1 THEN 1 ELSE 2)
          /\ last_op.id = cameras[camera].id
          /\ last_op.mem = cameras[camera].mem
          /\ last_op.mem_id = cameras[camera].mem_id
          /\ last_op.mem \in {NULLPTR, last_op.id}
    /\ last_op.op = "is_FreezeVideo" =>
          \/ pc = "is_SetImageMem" /\ result # IS_SUCCESS
          \/ pc \in {"name", "is_ImageFile"} /\ result = IS_SUCCESS
    /\ pc = "is_SetImageMem" => last_op.op \in {"none", "is_FreezeVideo"}

\* Witness of C19: device 2 is about to be frozen again after a non-success
\* freeze, and its own buffer has just been bound again.
C19_Witness ==
    /\ pc = "is_FreezeVideo"
    /\ calls = 2
    /\ retries > 0
    /\ result # IS_SUCCESS
    /\ last_op = [op |-> "is_SetImageMem", id |-> 2, mem |-> 2, mem_id |-> 1]
=============================================================================
